---- MODULE Spec2Model ----
(***************************************************************************)
(* Model of main() of mars_j2.py: the deck batch loop (lines 57-132), the  *)
(* tabulated batch loop (lines 137-195) and the final report (line 197).   *)
(*                                                                         *)
(* Radii and the lithosphere thickness are integers in units of 10 km      *)
(* (d_lith = 150.e3 m is 15); file densities are even integers so that the *)
(* layer mean (rhot + rhob) / 2. is exact.  numpy arrays are sequences;    *)
(* the code's 0-based index k is position k + 1 of the sequence.           *)
(*                                                                         *)
(* Locals that an iteration assigns before it reads them (lines, radius,   *)
(* rho, ...) are dropped when the for statement advances; the locals that  *)
(* an iteration only sometimes assigns (i_core, i_crust, i_lith, rt) keep  *)
(* their value from one iteration to the next, as Python locals do.        *)
(***************************************************************************)
EXTENDS Integers, Sequences, FiniteSets, TLC

\* ---- bounds of the input files ----
MaxEntries == 3
MaxRows == 3

\* ---- program constants ----
d_lith == 15
PminInit == 100
PmaxInit == 0
HeaderLines == 4

\* A local that has not been assigned yet (reading it raises UnboundLocalError).
Unbound == -1

RadiusValues == {0, 5, 20, 30}
DensityValues == {2, 4}
FlagValues == {0, 1, 2}
PercentValues == {10, 55, 80, 120}

NoFile == [kind |-> "none"]
NoCall == [called |-> FALSE]

VARIABLES pc, file, radius, rho, i_core, i_crust, i_lith, rt,
          printed, hcall, err, pmin, pmax, percents, reported

vars == <<pc, file, radius, rho, i_core, i_crust, i_lith, rt,
          printed, hcall, err, pmin, pmax, percents, reported>>

\* ---- helpers ----
NonDecreasing(s) == \A k \in 1..(Len(s) - 1) : s[k] <= s[k + 1]

StrictlyIncreasing(s) == \A k \in 1..(Len(s) - 1) : s[k] < s[k + 1]

SeqsUpTo(S, lo, hi) == UNION {[1..m -> S] : m \in lo..hi}

\* numpy indexing a[k]: a negative k counts from the end, anything outside
\* -len .. len-1 raises IndexError.
InRange(a, k) == (k >= 0 - Len(a)) /\ (k < Len(a))

At(a, k) == IF k >= 0 THEN a[k + 1] ELSE a[Len(a) + k + 1]

\* ---- input files ----
Entry == [r : RadiusValues, rho : DensityValues]

RadiiOf(es) == [k \in 1..Len(es) |-> es[k].r]

\* Physically ordered columns: radii non-decreasing (equal radii mark a
\* discontinuity), densities non-increasing outwards.
Column(lo, hi) ==
    {es \in SeqsUpTo(Entry, lo, hi) :
        /\ NonDecreasing(RadiiOf(es))
        /\ NonDecreasing([k \in 1..Len(es) |-> 0 - es[k].rho])}

\* A deck: lines[1] field 2 (flag), lines[2] fields 0, 2, 3 (entry count,
\* 1-based core and crust entry numbers) and the entries of lines[3..].
DeckFiles ==
    {[kind |-> "deck", flag |-> fl, num_file |-> Len(es),
      core_index_file |-> co, crust_index_file |-> cr, entries |-> es] :
        fl \in FlagValues, co \in 1..MaxEntries, cr \in 1..MaxEntries,
        es \in Column(1, MaxEntries)}

\* The declared core and crust entry numbers name entries of the deck.
ValidDeck(f) ==
    /\ f.core_index_file <= f.num_file
    /\ f.crust_index_file <= f.num_file

\* A table: four header lines (no fields are read from them), then one
\* <<radius, density>> line per row.
HeaderOf == [k \in 1..HeaderLines |-> <<>>]

LinesOf(es) == HeaderOf \o [k \in 1..Len(es) |-> <<es[k].r, es[k].rho>>]

TabFiles ==
    {[kind |-> "tab", ext |-> ".dat", lines |-> LinesOf(es)] :
        es \in Column(0, MaxRows)}

OtherFiles == {[kind |-> "tab", ext |-> ".txt", lines |-> HeaderOf]}

\* ---- the deck parse loop, lines 72-100 ----
\* Variants of the loop body with one slip each: a row emitted for an
\* equal-radius pair too, the top density in place of the mean, a marker
\* recorded one row too high.
DeckPairNoCollapse(f, i, st) ==
    LET rb == f.entries[i + 1].r
        rhob == f.entries[i + 1].rho
        rtop == f.entries[i + 2].r
        rhot == f.entries[i + 2].rho
    IN  [st EXCEPT
            !.rt = rtop,
            !.i_core = IF rb = rtop /\ i = f.core_index_file - 1
                       THEN st.num ELSE @,
            !.i_crust = IF rb = rtop /\ i = f.crust_index_file - 1
                        THEN st.num ELSE @,
            !.radius = Append(@, rb),
            !.rho = Append(@, (rhot + rhob) \div 2),
            !.num = @ + 1]

DeckPairTopDensity(f, i, st) ==
    LET rb == f.entries[i + 1].r
        rtop == f.entries[i + 2].r
        rhot == f.entries[i + 2].rho
    IN  IF rb = rtop
        THEN [st EXCEPT
                !.rt = rtop,
                !.i_core = IF i = f.core_index_file - 1 THEN st.num ELSE @,
                !.i_crust = IF i = f.crust_index_file - 1 THEN st.num ELSE @]
        ELSE [st EXCEPT
                !.rt = rtop,
                !.radius = Append(@, rb),
                !.rho = Append(@, rhot),
                !.num = @ + 1]

DeckPairMarkerAbove(f, i, st) ==
    LET rb == f.entries[i + 1].r
        rhob == f.entries[i + 1].rho
        rtop == f.entries[i + 2].r
        rhot == f.entries[i + 2].rho
    IN  IF rb = rtop
        THEN [st EXCEPT
                !.rt = rtop,
                !.i_core = IF i = f.core_index_file - 1
                           THEN st.num + 1 ELSE @,
                !.i_crust = IF i = f.crust_index_file - 1
                            THEN st.num + 1 ELSE @]
        ELSE [st EXCEPT
                !.rt = rtop,
                !.radius = Append(@, rb),
                !.rho = Append(@, (rhot + rhob) \div 2),
                !.num = @ + 1]

\* One pass of the loop body for the pair (i, i+1), lines 77-92.
DeckPair(f, i, st) ==
    LET rb == f.entries[i + 1].r
        rhob == f.entries[i + 1].rho
        rtop == f.entries[i + 2].r
        rhot == f.entries[i + 2].rho
    IN  IF rb = rtop
        THEN [st EXCEPT
                !.rt = rtop,
                !.i_core = IF i = f.core_index_file - 1 THEN st.num ELSE @,
                !.i_crust = IF i = f.crust_index_file - 1 THEN st.num ELSE @]
        ELSE [st EXCEPT
                !.rt = rtop,
                !.radius = Append(@, rb),
                !.rho = Append(@, (rhot + rhob) \div 2),
                !.num = @ + 1]

RECURSIVE DeckLoop(_, _, _)
DeckLoop(f, i, st) ==
    IF i >= f.num_file - 1 THEN st
    ELSE DeckLoop(f, i + 1, DeckPair(f, i, st))

\* Lines 94-100: the surface row.  rt is read here; with no pair walked it
\* is whatever an earlier deck left, or unbound.
DeckSurface(st) ==
    IF st.rt = Unbound
    THEN [st EXCEPT !.err = "UnboundLocalError"]
    ELSE [st EXCEPT !.radius = Append(@, st.rt), !.rho = Append(@, 0)]

DeckParse(f, ic, icr, rt0) ==
    DeckSurface(DeckLoop(f, 0,
        [radius |-> <<>>, rho |-> <<>>, num |-> 0, i_core |-> ic,
         i_crust |-> icr, rt |-> rt0, err |-> "none"]))

\* ---- the lithosphere scan, lines 103-113 and 164-174 ----
\* A variant that sends an exact tie to the upper index.
ResolveStrict(a, i, target) ==
    IF At(a, i) = target THEN i
    ELSE IF target - At(a, i) < At(a, i + 1) - target THEN i
    ELSE i + 1

\* Lines 106-112: the index chosen for the bracketing pair (i, i+1).
Resolve(a, i, target) ==
    IF At(a, i) = target THEN i
    ELSE IF target - At(a, i) <= At(a, i + 1) - target THEN i
    ELSE i + 1

RECURSIVE LocateFrom(_, _, _, _, _)
LocateFrom(a, i, count, target, il) ==
    IF i >= count THEN [i_lith |-> il, err |-> "none"]
    ELSE IF At(a, i) <= target
         THEN IF ~InRange(a, i + 1)
              THEN [i_lith |-> il, err |-> "IndexError"]
              ELSE IF At(a, i + 1) > target
                   THEN [i_lith |-> Resolve(a, i, target), err |-> "none"]
                   ELSE LocateFrom(a, i + 1, count, target, il)
         ELSE LocateFrom(a, i + 1, count, target, il)

\* The scan over range(0, count) with r0_model the surface radius; il is
\* the value i_lith has before the scan.
LocateScan(a, count, r0_model, il) ==
    LocateFrom(a, 0, count, r0_model - d_lith, il)

\* ---- lines 115-124 of the deck loop: the reads of i_crust, i_core and
\* i_lith.  printed holds what lines 117-120 have printed so far.
DeckUse(a, dens, ic, icr, il) ==
    IF icr = Unbound THEN [printed |-> <<>>, err |-> "UnboundLocalError"]
    ELSE IF ~InRange(dens, icr - 1) THEN [printed |-> <<>>, err |-> "IndexError"]
    ELSE IF ic = Unbound THEN [printed |-> <<>>, err |-> "UnboundLocalError"]
    ELSE IF ~InRange(dens, ic - 1) THEN [printed |-> <<>>, err |-> "IndexError"]
    ELSE LET rho_mantle == At(dens, icr - 1)
             rho_core == At(dens, ic - 1)
         IN  IF ~InRange(a, icr)
             THEN [printed |-> <<rho_mantle>>, err |-> "IndexError"]
             ELSE IF ~InRange(a, ic)
             THEN [printed |-> <<rho_mantle, At(a, icr), rho_core>>,
                   err |-> "IndexError"]
             ELSE LET all == <<rho_mantle, At(a, icr), rho_core, At(a, ic)>>
                  IN  IF il = Unbound
                      THEN [printed |-> all, err |-> "UnboundLocalError"]
                      ELSE IF ~InRange(a, il)
                      THEN [printed |-> all, err |-> "IndexError"]
                      ELSE [printed |-> all, err |-> "none"]

\* The call of HydrostaticShapeLith (lines 127-129, 185-187): its profile
\* and shell-index arguments.
CallOf(a, dens, il) ==
    [called |-> TRUE, radius |-> a, rho |-> dens, i_lith |-> il]

\* A variant that reads the flag as a boolean.
FlagOkBoolean(f) == f.flag # 0

\* Line 63: the polynomial flag accepted.

FlagOk(f) == f.flag = 1

\* ---- one iteration of the deck loop, lines 58-132 ----
DeckBody(f, ic, icr, il, rt0) ==
    LET blank == [radius |-> <<>>, rho |-> <<>>, i_core |-> ic,
                  i_crust |-> icr, i_lith |-> il, rt |-> rt0,
                  printed |-> <<>>, hcall |-> NoCall, err |-> "none"]
    IN  IF ~FlagOk(f) THEN [blank EXCEPT !.err = "RuntimeError"]
        ELSE
        LET p == DeckParse(f, ic, icr, rt0)
            parsed == [blank EXCEPT !.radius = p.radius, !.rho = p.rho,
                                    !.i_core = p.i_core,
                                    !.i_crust = p.i_crust, !.rt = p.rt]
        IN  IF p.err # "none" THEN [parsed EXCEPT !.err = p.err]
            ELSE
            LET n == p.num
                loc == LocateScan(p.radius, n + 1, At(p.radius, n), il)
                located == [parsed EXCEPT !.i_lith = loc.i_lith]
            IN  IF loc.err # "none" THEN [located EXCEPT !.err = loc.err]
                ELSE
                LET u == DeckUse(p.radius, p.rho, p.i_core, p.i_crust,
                                 loc.i_lith)
                    used == [located EXCEPT !.printed = u.printed]
                IN  IF u.err # "none" THEN [used EXCEPT !.err = u.err]
                    ELSE [used EXCEPT
                            !.hcall = CallOf(p.radius, p.rho, loc.i_lith)]

\* ---- one iteration of the tabulated loop, lines 148-195 ----
\* Lines 151-158: the rows after the header.
TabParse(f) ==
    LET num == Len(f.lines) - HeaderLines
    IN  [num |-> num,
         radius |-> [i \in 1..num |-> f.lines[i + HeaderLines][1]],
         rho |-> [i \in 1..num |-> f.lines[i + HeaderLines][2]]]

\* A variant that zeroes the first row.
TabSurfaceFirst(dens, n) == [dens EXCEPT ![1] = 0]

\* Line 177: rho[n] = 0.
TabSurface(dens, n) == [dens EXCEPT ![n + 1] = 0]

\* Lines 192-195.
Accumulate(lo, hi, percent) ==
    [pmax |-> IF percent > hi THEN percent ELSE hi,
     pmin |-> IF percent < lo THEN percent ELSE lo]

TabBody(f, il, lo, hi, percent) ==
    LET t == TabParse(f)
        blank == [radius |-> t.radius, rho |-> t.rho, i_lith |-> il,
                  hcall |-> NoCall, err |-> "none", pmin |-> lo,
                  pmax |-> hi, got |-> {}]
    IN  IF ~InRange(t.radius, t.num - 1)
        THEN [blank EXCEPT !.err = "IndexError"]
        ELSE
        LET loc == LocateScan(t.radius, t.num, At(t.radius, t.num - 1), il)
            located == [blank EXCEPT !.i_lith = loc.i_lith]
        IN  IF loc.err # "none" THEN [located EXCEPT !.err = loc.err]
            ELSE
            LET dens == TabSurface(t.rho, t.num - 1)
                zeroed == [located EXCEPT !.rho = dens]
            IN  IF loc.i_lith = Unbound
                THEN [zeroed EXCEPT !.err = "UnboundLocalError"]
                ELSE IF ~InRange(t.radius, loc.i_lith)
                THEN [zeroed EXCEPT !.err = "IndexError"]
                ELSE
                LET acc == Accumulate(lo, hi, percent)
                IN  [zeroed EXCEPT
                        !.hcall = CallOf(t.radius, dens, loc.i_lith),
                        !.pmin = acc.pmin, !.pmax = acc.pmax,
                        !.got = {percent}]

\* ---- the state machine ----
Init ==
    /\ pc = "deck_loop"
    /\ file = NoFile
    /\ radius = <<>>
    /\ rho = <<>>
    /\ i_core = Unbound
    /\ i_crust = Unbound
    /\ i_lith = Unbound
    /\ rt = Unbound
    /\ printed = <<>>
    /\ hcall = NoCall
    /\ err = "none"
    /\ pmin = Unbound
    /\ pmax = Unbound
    /\ percents = {}
    /\ reported = <<>>

\* Lines 57-132 for one file of interior_file.
DeckModel ==
    /\ pc = "deck_loop"
    /\ \E f \in DeckFiles :
        /\ ValidDeck(f)
        /\ LET b == DeckBody(f, i_core, i_crust, i_lith, rt)
           IN  /\ file' = f
               /\ radius' = b.radius
               /\ rho' = b.rho
               /\ i_core' = b.i_core
               /\ i_crust' = b.i_crust
               /\ i_lith' = b.i_lith
               /\ rt' = b.rt
               /\ printed' = b.printed
               /\ hcall' = b.hcall
               /\ err' = b.err
               /\ pc' = IF b.err = "none" THEN "deck_next" ELSE "error"
    /\ UNCHANGED <<pmin, pmax, percents, reported>>

\* The for statement of line 57 takes the next file.
DeckNext ==
    /\ pc = "deck_next"
    /\ pc' = "deck_loop"
    /\ file' = NoFile
    /\ radius' = <<>>
    /\ rho' = <<>>
    /\ printed' = <<>>
    /\ hcall' = NoCall
    /\ UNCHANGED <<i_core, i_crust, i_lith, rt, err, pmin, pmax, percents,
                   reported>>

\* interior_file is exhausted: lines 137-142.  i_core, i_crust and rt are
\* not read after the deck loop.
DeckLoopExit ==
    /\ pc = "deck_loop"
    /\ pc' = "tab_loop"
    /\ pmin' = PminInit
    /\ pmax' = PmaxInit
    /\ i_core' = Unbound
    /\ i_crust' = Unbound
    /\ rt' = Unbound
    /\ UNCHANGED <<file, radius, rho, i_lith, printed, hcall, err, percents,
                   reported>>

\* Lines 145-146: a directory entry that is not a .dat file.
TabSkip ==
    /\ pc = "tab_loop"
    /\ \E f \in OtherFiles : file' = f
    /\ pc' = "tab_next"
    /\ UNCHANGED <<radius, rho, i_core, i_crust, i_lith, rt, printed, hcall,
                   err, pmin, pmax, percents, reported>>

\* Lines 148-195 for one .dat file; percent is what the collaborator's
\* result gives at line 188.
TabModel ==
    /\ pc = "tab_loop"
    /\ \E f \in TabFiles, percent \in PercentValues :
        LET b == TabBody(f, i_lith, pmin, pmax, percent)
        IN  /\ file' = f
            /\ radius' = b.radius
            /\ rho' = b.rho
            /\ i_lith' = b.i_lith
            /\ hcall' = b.hcall
            /\ err' = b.err
            /\ pmin' = b.pmin
            /\ pmax' = b.pmax
            /\ percents' = percents \cup b.got
            /\ pc' = IF b.err = "none" THEN "tab_next" ELSE "error"
    /\ UNCHANGED <<i_core, i_crust, rt, printed, reported>>

\* The for statement of line 144 takes the next directory entry.
TabNext ==
    /\ pc = "tab_next"
    /\ pc' = "tab_loop"
    /\ file' = NoFile
    /\ radius' = <<>>
    /\ rho' = <<>>
    /\ hcall' = NoCall
    /\ UNCHANGED <<i_core, i_crust, i_lith, rt, printed, err, pmin, pmax,
                   percents, reported>>

\* Line 197.
Report ==
    /\ pc = "tab_loop"
    /\ pc' = "done"
    /\ reported' = <<pmin, pmax>>
    /\ UNCHANGED <<file, radius, rho, i_core, i_crust, i_lith, rt, printed,
                   hcall, err, pmin, pmax, percents>>

Next ==
    \/ DeckModel
    \/ DeckNext
    \/ DeckLoopExit
    \/ TabSkip
    \/ TabModel
    \/ TabNext
    \/ Report

Spec == Init /\ [][Next]_vars

\* ======================================================================
\* Properties
\* ======================================================================
Abs(x) == IF x < 0 THEN 0 - x ELSE x

SetMin(S) == CHOOSE x \in S : \A y \in S : x <= y

SetMax(S) == CHOOSE x \in S : \A y \in S : x >= y

\* The iteration just run read a deck / a .dat table.
DeckRead == file.kind = "deck"

TabRead == file.kind = "tab" /\ file.ext = ".dat"

\* Its profile was built (the deck's surface row appended, the table's rows
\* copied).
ProfileBuilt == (DeckRead \/ TabRead) /\ Len(radius) >= 1

SurfaceIndex == Len(radius) - 1

Target == At(radius, SurfaceIndex) - d_lith

Bracket(i) ==
    /\ i \in 0..(SurfaceIndex - 1)
    /\ At(radius, i) <= Target
    /\ Target < At(radius, i + 1)

\* The index nearest to the target, the lower one on a tie.
Nearest(a, t) ==
    CHOOSE k \in 0..(Len(a) - 1) :
        \A j \in 0..(Len(a) - 1) :
            \/ Abs(At(a, k) - t) < Abs(At(a, j) - t)
            \/ (Abs(At(a, k) - t) = Abs(At(a, j) - t) /\ k <= j)

LocatorCase ==
    /\ ProfileBuilt
    /\ StrictlyIncreasing(radius)
    /\ At(radius, 0) <= Target
    /\ Target < At(radius, SurfaceIndex)

\* C1: on a strictly increasing profile whose target r_n - d lies in
\* [r_0, r_n), the scan of either loop leaves in i_lith the index nearest
\* to the target: the lower index i of the bracketing pair when
\* target - r_i <= r_{i+1} - target (so also when target = r_i), else i + 1.
C1_LocatorNearest ==
    LocatorCase =>
        /\ i_lith = Nearest(radius, Target)
        /\ \A i \in 0..(SurfaceIndex - 1) :
            Bracket(i) =>
                i_lith = IF Target - At(radius, i) <= At(radius, i + 1) - Target
                         THEN i ELSE i + 1

\* A table whose target lies exactly midway in its bracketing pair, and the
\* lower index chosen and passed on.
C1_Witness ==
    /\ TabRead
    /\ LocatorCase
    /\ hcall.called
    /\ \E i \in 0..(SurfaceIndex - 1) :
        /\ Bracket(i)
        /\ Target - At(radius, i) = At(radius, i + 1) - Target
        /\ Target # At(radius, i)
        /\ i_lith = i
        /\ hcall.i_lith = i

\* C2: a deck with flag 1, N >= 2 entries and non-decreasing entry radii
\* gives a profile with strictly increasing radii and last density 0.
C2_DeckProfileInvariant ==
    (/\ DeckRead
     /\ FlagOk(file)
     /\ file.num_file >= 2
     /\ NonDecreasing(RadiiOf(file.entries)))
    => /\ Len(radius) >= 1
       /\ Len(rho) = Len(radius)
       /\ StrictlyIncreasing(radius)
       /\ At(rho, SurfaceIndex) = 0

\* A three-entry deck with a discontinuity pair and a layer pair, parsed
\* into two rows.
C2_Witness ==
    /\ DeckRead
    /\ FlagOk(file)
    /\ file.num_file = 3
    /\ file.entries[1].r = file.entries[2].r
    /\ file.entries[2].r < file.entries[3].r
    /\ Len(radius) = 2
    /\ At(rho, 1) = 0

\* The profile just built comes from the file's own entries: a table, or a
\* deck with at least one pair of entries.
OwnProfile ==
    /\ ProfileBuilt
    /\ DeckRead => file.num_file >= 2

\* No bracketing pair r_i <= target < r_{i+1} in the profile just built.
NoBracket == OwnProfile /\ ~(\E i \in 0..(SurfaceIndex - 1) : Bracket(i))

\* C3: when no bracketing pair exists for a model (a table, or a deck of at
\* least two entries), that model ends in an error and HydrostaticShapeLith
\* is not called for it, whichever models came before.
C3_OutOfRangeFails ==
    NoBracket => (err # "none" /\ ~hcall.called)

\* The 1-based entry number m names an equal-radius pair of the deck.
MarkerMatches(f, m) ==
    /\ m <= f.num_file - 1
    /\ f.entries[m].r = f.entries[m + 1].r

\* C4: a deck (of at least two entries) whose declared core or crust entry
\* number names no equal-radius pair ends in an error: nothing is printed
\* for its mantle and core and the collaborator is not called.
C4_UnmatchedMarkerFails ==
    (/\ DeckRead
     /\ FlagOk(file)
     /\ file.num_file >= 2
     /\ \/ ~MarkerMatches(file, file.core_index_file)
        \/ ~MarkerMatches(file, file.crust_index_file))
    => (err # "none" /\ printed = <<>> /\ ~hcall.called)

BadFlag == DeckRead /\ file.flag # 1

\* C5: a deck whose flag is not 1 raises at that model: it is not parsed,
\* located or passed on, nothing is reported, and no step follows.
C5_FailFast ==
    /\ [](BadFlag =>
            /\ pc = "error"
            /\ err = "RuntimeError"
            /\ radius = <<>>
            /\ rho = <<>>
            /\ ~hcall.called
            /\ reported = <<>>)
    /\ [][~BadFlag]_vars

\* A deck with a bad flag met after an earlier deck went through.
C5_Witness ==
    /\ BadFlag
    /\ err = "RuntimeError"
    /\ i_lith # Unbound
    /\ i_crust # Unbound

\* C6: the pair reported for a non-empty batch is the minimum and the
\* maximum of the percentages returned.
C6_ReportIsMinMax ==
    (pc = "done" /\ percents # {}) =>
        reported = <<SetMin(percents), SetMax(percents)>>

\* The equal-radius pairs and the layer pairs of a deck, by 0-based pair
\* index.
UnequalPairs(f) ==
    {i \in 0..(f.num_file - 2) : f.entries[i + 1].r # f.entries[i + 2].r}

RowsBelow(f, i) == Cardinality({h \in UnequalPairs(f) : h < i})

BothMarkersMatch ==
    /\ DeckRead
    /\ FlagOk(file)
    /\ MarkerMatches(file, file.core_index_file)
    /\ MarkerMatches(file, file.crust_index_file)

\* C7 as stated: both indices lie in [0, surfaceIndex).
C7_IndicesBelowSurface ==
    BothMarkersMatch =>
        /\ 0 <= i_core /\ i_core < SurfaceIndex
        /\ 0 <= i_crust /\ i_crust < SurfaceIndex

\* C7 amended: both indices lie in [0, surfaceIndex]; an index is the
\* number of rows below its marker pair, so it is surfaceIndex exactly
\* when no layer pair follows the marker pair.
C7_IndicesUpToSurface ==
    BothMarkersMatch =>
        /\ 0 <= i_core /\ i_core <= SurfaceIndex
        /\ 0 <= i_crust /\ i_crust <= SurfaceIndex
        /\ i_core = RowsBelow(file, file.core_index_file - 1)
        /\ i_crust = RowsBelow(file, file.crust_index_file - 1)
        /\ (i_core = SurfaceIndex) <=>
            (\A h \in UnequalPairs(file) : h < file.core_index_file - 1)
        /\ (i_crust = SurfaceIndex) <=>
            (\A h \in UnequalPairs(file) : h < file.crust_index_file - 1)

\* A deck whose marker pair lies above its only layer: the indices are the
\* surface index.
C7_Witness ==
    /\ BothMarkersMatch
    /\ file.num_file = 3
    /\ SurfaceIndex = 1
    /\ i_crust = SurfaceIndex
    /\ i_core = SurfaceIndex

\* What an iteration computes for its model: when it goes through, the
\* indices it used, what it printed and the call it made; else that it
\* failed.
DeckOutputs(b) ==
    IF b.err = "none"
    THEN <<b.i_core, b.i_crust, b.i_lith, b.printed, b.hcall>>
    ELSE <<"failed">>

TabOutputs(b) ==
    IF b.err = "none" THEN <<b.i_lith, b.hcall>> ELSE <<"failed">>

Current ==
    [i_core |-> i_core, i_crust |-> i_crust, i_lith |-> i_lith,
     printed |-> printed, hcall |-> hcall, err |-> err]

\* C8: what is computed for a model is what is computed for it when it is
\* the first model of the run, with no local assigned by an earlier model.
C8_NoSharedState ==
    /\ DeckRead =>
        DeckOutputs(Current) =
            DeckOutputs(DeckBody(file, Unbound, Unbound, Unbound, Unbound))
    /\ TabRead =>
        TabOutputs(Current) =
            TabOutputs(TabBody(file, Unbound, PminInit, PmaxInit, PmaxInit))

\* C9: the table's rows from line 4 on are copied in order, only the last
\* density is replaced by 0, and the collaborator gets exactly these.
C9_TabCopiesRows ==
    (TabRead /\ Len(file.lines) > HeaderLines) =>
        LET num == Len(file.lines) - 4
        IN  /\ Len(radius) = num
            /\ Len(rho) = num
            /\ \A k \in 1..num : radius[k] = file.lines[4 + k][1]
            /\ \A k \in 1..(num - 1) : rho[k] = file.lines[4 + k][2]
            /\ rho[num] = 0
            /\ hcall.called => (hcall.radius = radius /\ hcall.rho = rho)

\* A three-row table with a non-zero last density, passed on.
C9_Witness ==
    /\ TabRead
    /\ Len(file.lines) = HeaderLines + 3
    /\ file.lines[HeaderLines + 3][2] # 0
    /\ hcall.called
    /\ hcall.rho[3] = 0
    /\ hcall.rho[1] = file.lines[HeaderLines + 1][2]

\* The pair behind row j (0-based) of the profile: the layer pair with j
\* layer pairs below it.
PairOfRow(f, j) == CHOOSE i \in UnequalPairs(f) : RowsBelow(f, i) = j

\* One row per layer pair, at its bottom radius with the mean density, then
\* the surface row at the last entry's radius with density 0.
RowsAsClaimed(f) ==
    LET rows == Cardinality(UnequalPairs(f))
    IN  /\ Len(radius) = rows + 1
        /\ Len(rho) = rows + 1
        /\ \A j \in 0..(rows - 1) :
            LET i == PairOfRow(f, j)
            IN  /\ At(radius, j) = f.entries[i + 1].r
                /\ 2 * At(rho, j) = f.entries[i + 1].rho + f.entries[i + 2].rho
        /\ At(radius, rows) = f.entries[f.num_file].r
        /\ At(rho, rows) = 0

\* C10 as stated: for a deck of N entries.
C10_RowsPerPair ==
    (DeckRead /\ FlagOk(file)) => RowsAsClaimed(file)

\* C10 amended: for a deck of N >= 2 entries.
C10_RowsPerPairFromTwo ==
    (DeckRead /\ FlagOk(file) /\ file.num_file >= 2) => RowsAsClaimed(file)

\* One boundary pair, one layer pair with different densities and the
\* terminal entry: two rows.
C10_Witness ==
    /\ DeckRead
    /\ FlagOk(file)
    /\ file.num_file = 3
    /\ file.entries[1].r = file.entries[2].r
    /\ file.entries[2].r # file.entries[3].r
    /\ file.entries[2].rho # file.entries[3].rho
    /\ Len(radius) = 2
    /\ 2 * At(rho, 0) = file.entries[2].rho + file.entries[3].rho

====
